---- MODULE Spec2Model ----
(***************************************************************************)
(* poeditor-mcp: the MCP tool handlers of src/server.ts and the remote     *)
(* call adapter they share, as a state machine.  One tool invocation is    *)
(* served at a time: the handlers keep no state between invocations, the   *)
(* only shared values are the configuration read once at startup.          *)
(*                                                                         *)
(* JavaScript values:                                                      *)
(*   string            a TLA+ string                                       *)
(*   T | undefined     <<>> (undefined) or <<v>>                           *)
(*   number            [nan, tenths]: NaN, or tenths/10 (one decimal)      *)
(*   argument objects  a record whose DOMAIN is the set of present keys    *)
(*   parsed JSON       a tagged record [t, s, ks, vs] (see JObj)           *)
(***************************************************************************)
EXTENDS Integers, Sequences, FiniteSets, TLC

VARIABLES
    API_TOKEN,    \* process.env.POEDITOR_API_TOKEN: <<>> or <<string>>
    PROJECT_ID,   \* process.env.POEDITOR_PROJECT_ID: <<>> or <<string>>
    alive,        \* the process is running and serving tool calls
    pc,           \* "idle" | "await1" | "await2" | "done": position of the handler
    tool,         \* name of the tool being served ("" when idle)
    raw,          \* the argument object as the caller sent it
    args,         \* the argument object after schema validation
    id,           \* the handler's local `id`
    termRes,      \* the compound handler's local `termRes`
    calls,        \* remote requests issued by this invocation, in order
    received,     \* what the remote answered to them, in order
    outcome       \* what the invocation returned or threw

vars == <<API_TOKEN, PROJECT_ID, alive, pc, tool, raw, args, id, termRes, calls, received, outcome>>

----------------------------------------------------------------------------
\* Strings

\* s.slice(i - 1, j): the characters i..j of s that exist
Slice(s, i, j) ==
    LET a == IF i < 1 THEN 1 ELSE i
        b == IF j > Len(s) THEN Len(s) ELSE j
    IN  IF a > b THEN "" ELSE SubSeq(s, a, b)

Ch(s, i) == Slice(s, i, i)

Min(S) == CHOOSE m \in S : \A n \in S : m <= n

\* F(v), with v evaluated once: a local constant (const x = v; ...)
Once(v, F(_)) == CHOOSE r \in {F(x) : x \in {v}} : TRUE

\* String.prototype.includes
Includes(s, sub) ==
    \E i \in 1..(Len(s) - Len(sub) + 1) : Slice(s, i, i + Len(sub) - 1) = sub

DigitChars == {"0", "1", "2", "3", "4", "5", "6", "7", "8", "9"}

DigitOf(c) == CHOOSE d \in 0..9 : Slice("0123456789", d + 1, d + 1) = c

AllDigits(s) == \A i \in 1..Len(s) : Ch(s, i) \in DigitChars

RECURSIVE DigitsValue(_)
DigitsValue(s) ==
    IF s = "" THEN 0
    ELSE 10 * DigitsValue(Slice(s, 1, Len(s) - 1)) + DigitOf(Ch(s, Len(s)))

----------------------------------------------------------------------------
\* Numbers

NaN == [nan |-> TRUE, tenths |-> 0]
Num(t) == [nan |-> FALSE, tenths |-> t]
Int10(n) == Num(10 * n)

IsInteger(n) == ~n.nan /\ n.tenths % 10 = 0
IsPositive(n) == ~n.nan /\ n.tenths > 0

\* ToBoolean of a number: 0 and NaN are falsy
TruthyNumber(n) == ~n.nan /\ n.tenths # 0

WhiteSpace == {" "}

Trim(s) ==
    LET keep == {i \in 1..Len(s) : Ch(s, i) \notin WhiteSpace}
    IN  IF keep = {} THEN ""
        ELSE Slice(s, Min(keep), CHOOSE m \in keep : \A n \in keep : n <= m)

\* position of the first "." of s, Len(s) + 1 when there is none
DotAt(s) == Min({i \in 1..Len(s) : Ch(s, i) = "."} \cup {Len(s) + 1})

\* the decimal literal ip.fp; fractions are kept to one decimal place (the
\* strings of the model have no more)
Decimal(ip, fp) ==
    IF AllDigits(ip) /\ AllDigits(fp) /\ Len(ip) + Len(fp) > 0 /\ Len(fp) <= 1
    THEN Num(10 * DigitsValue(ip) + DigitsValue(fp))
    ELSE NaN

Unsigned(b) ==
    Once(DotAt(b), LAMBDA d : Decimal(Slice(b, 1, d - 1), Slice(b, d + 1, Len(b))))

Negate(n) == IF n.nan THEN NaN ELSE Num(-n.tenths)

\* StringToNumber of a trimmed string: empty is 0; an optional sign and a
\* decimal literal; anything else is NaN
StringToNumber(t) ==
    IF t = "" THEN Num(0)
    ELSE IF Ch(t, 1) = "-" THEN Negate(Unsigned(Slice(t, 2, Len(t))))
    ELSE IF Ch(t, 1) = "+" THEN Unsigned(Slice(t, 2, Len(t)))
    ELSE Unsigned(t)

\* Number(string)
Number(s) == StringToNumber(Trim(s))

\* String(number)
String(n) ==
    IF n.nan THEN "NaN"
    ELSE IF n.tenths % 10 = 0 THEN ToString(n.tenths \div 10)
    ELSE LET a == IF n.tenths < 0 THEN -n.tenths ELSE n.tenths
         IN  (IF n.tenths < 0 THEN "-" ELSE "")
                 \o ToString(a \div 10) \o "." \o ToString(a % 10)

----------------------------------------------------------------------------
\* JSON values, as JSON.parse builds them

JNull == [t |-> "null", s |-> "", ks |-> <<>>, vs |-> <<>>]
JBool(s) == [t |-> "boolean", s |-> s, ks |-> <<>>, vs |-> <<>>]
JNum(s) == [t |-> "number", s |-> s, ks |-> <<>>, vs |-> <<>>]
JStr(s) == [t |-> "string", s |-> s, ks |-> <<>>, vs |-> <<>>]
JArr(vs) == [t |-> "array", s |-> "", ks |-> <<>>, vs |-> vs]
JObj(ks, vs) == [t |-> "object", s |-> "", ks |-> ks, vs |-> vs]

EmptyObject == JObj(<<>>, <<>>)

JsonWs == {" "}

\* the first position at or after i that holds no white space
RECURSIVE SkipWs(_, _)
SkipWs(s, i) == IF Ch(s, i) \in JsonWs THEN SkipWs(s, i + 1) ELSE i

\* the first position at or after i that holds c, 0 when there is none
RECURSIVE Find(_, _, _)
Find(s, c, i) ==
    IF i > Len(s) THEN 0 ELSE IF Ch(s, i) = c THEN i ELSE Find(s, c, i + 1)

ParseFail == [ok |-> FALSE, v |-> JNull, i |-> 0]
ParseOk(v, i) == [ok |-> TRUE, v |-> v, i |-> i]

\* a string literal starting at the quote s[i]; escapes are not modelled
ParseString(s, i) ==
    IF Ch(s, i) # "\"" THEN ParseFail
    ELSE Once(Find(s, "\"", i + 1), LAMBDA q :
            IF q = 0 THEN ParseFail ELSE ParseOk(JStr(Slice(s, i + 1, q - 1)), q + 1))

\* (0|[1-9][0-9]*)(.[0-9]+)? as integer part ip and fraction fp
JsonDecimal(ip, fp, hasDot) ==
    /\ Len(ip) > 0 /\ AllDigits(ip)
    /\ (Len(ip) > 1 => Ch(ip, 1) # "0")
    /\ (hasDot => Len(fp) > 0)
    /\ AllDigits(fp)

JsonUnsigned(b) ==
    Once(DotAt(b), LAMBDA d :
        JsonDecimal(Slice(b, 1, d - 1), Slice(b, d + 1, Len(b)), d <= Len(b)))

\* the last character of the number token that starts at s[i]
RECURSIVE NumberEnd(_, _)
NumberEnd(s, i) ==
    IF Ch(s, i) \in DigitChars \cup {"-", "."} THEN NumberEnd(s, i + 1) ELSE i - 1

\* a number token txt ending at e: an optional "-" and a decimal
ParseNumberText(txt, e) ==
    IF JsonUnsigned(IF Ch(txt, 1) = "-" THEN Slice(txt, 2, Len(txt)) ELSE txt)
    THEN ParseOk(JNum(txt), e + 1)
    ELSE ParseFail

ParseNumber(s, i) ==
    Once(NumberEnd(s, i), LAMBDA e : ParseNumberText(Slice(s, i, e), e))

RECURSIVE ParseValueAt(_, _), ParseMembers(_, _, _, _), ParseElements(_, _, _)

\* the value that starts at or after s[i0]
ParseValue(s, i0) == Once(SkipWs(s, i0), LAMBDA i : ParseValueAt(s, i))

\* after "{" / "[": the empty object / array, or the members / elements
ParseObject(s, j) ==
    IF Ch(s, j) = "}" THEN ParseOk(EmptyObject, j + 1) ELSE ParseMembers(s, j, <<>>, <<>>)

ParseArray(s, j) ==
    IF Ch(s, j) = "]" THEN ParseOk(JArr(<<>>), j + 1) ELSE ParseElements(s, j, <<>>)

ParseValueAt(s, i) ==
    IF Ch(s, i) = "{" THEN Once(SkipWs(s, i + 1), LAMBDA j : ParseObject(s, j))
    ELSE IF Ch(s, i) = "[" THEN Once(SkipWs(s, i + 1), LAMBDA j : ParseArray(s, j))
    ELSE IF Ch(s, i) = "\"" THEN ParseString(s, i)
    ELSE IF Slice(s, i, i + 3) = "null" THEN ParseOk(JNull, i + 4)
    ELSE IF Slice(s, i, i + 3) = "true" THEN ParseOk(JBool("true"), i + 4)
    ELSE IF Slice(s, i, i + 4) = "false" THEN ParseOk(JBool("false"), i + 5)
    ELSE IF Ch(s, i) \in DigitChars \cup {"-"} THEN ParseNumber(s, i)
    ELSE ParseFail

\* "key" : value ( , "key" : value )* }
ParseMembers(s, i0, ks, vs) ==
    Once(ParseString(s, SkipWs(s, i0)), LAMBDA k :
        IF ~k.ok THEN ParseFail
        ELSE Once(SkipWs(s, k.i), LAMBDA colon :
            IF Ch(s, colon) # ":" THEN ParseFail
            ELSE Once(ParseValue(s, colon + 1), LAMBDA v :
                IF ~v.ok THEN ParseFail
                ELSE Once(SkipWs(s, v.i), LAMBDA next :
                    IF Ch(s, next) = ","
                    THEN ParseMembers(s, next + 1, Append(ks, k.v.s), Append(vs, v.v))
                    ELSE IF Ch(s, next) = "}"
                    THEN ParseOk(JObj(Append(ks, k.v.s), Append(vs, v.v)), next + 1)
                    ELSE ParseFail))))

\* value ( , value )* ]
ParseElements(s, i0, vs) ==
    Once(ParseValue(s, i0), LAMBDA v :
        IF ~v.ok THEN ParseFail
        ELSE Once(SkipWs(s, v.i), LAMBDA next :
            IF Ch(s, next) = "," THEN ParseElements(s, next + 1, Append(vs, v.v))
            ELSE IF Ch(s, next) = "]" THEN ParseOk(JArr(Append(vs, v.v)), next + 1)
            ELSE ParseFail))

\* JSON.parse(text): [ok |-> FALSE] stands for the SyntaxError it throws
JSONparse(text) ==
    Once(ParseValue(text, 1), LAMBDA r :
        IF r.ok /\ SkipWs(text, r.i) = Len(text) + 1
        THEN [ok |-> TRUE, v |-> r.v]
        ELSE [ok |-> FALSE, v |-> JNull])

\* o?.k on a parsed value o (<<>> is undefined): the last member named k
Member(o, k) ==
    IF o = <<>> THEN <<>>
    ELSE IF o[1].t # "object" THEN <<>>
    ELSE LET at == {j \in 1..Len(o[1].ks) : o[1].ks[j] = k}
         IN  IF at = {} THEN <<>>
             ELSE <<o[1].vs[CHOOSE m \in at : \A n \in at : n <= m]>>

\* undefined or null
Nullish(o) == o = <<>> \/ o[1].t = "null"

\* a ?? b
Coalesce(a, b) == IF Nullish(a) THEN b ELSE a

\* ToBoolean of a parsed value
Truthy(o) ==
    IF o = <<>> THEN FALSE
    ELSE CASE o[1].t = "null" -> FALSE
           [] o[1].t = "boolean" -> o[1].s = "true"
           [] o[1].t = "string" -> o[1].s # ""
           [] o[1].t = "number" -> TruthyNumber(Number(o[1].s))
           [] OTHER -> TRUE

\* `${v}` of a parsed value in a template literal
Interpolate(o) ==
    IF o = <<>> THEN "undefined"
    ELSE CASE o[1].t \in {"string", "number", "boolean"} -> o[1].s
           [] o[1].t = "null" -> "null"
           [] o[1].t = "array" -> "[array]"
           [] OTHER -> "[object Object]"

----------------------------------------------------------------------------
\* Objects

\* o.k of an argument object: undefined when the key is absent
Prop(o, k) == IF k \in DOMAIN o THEN <<o[k]>> ELSE <<>>

\* the object o with key k set to v
With(o, k, v) == [x \in DOMAIN o \cup {k} |-> IF x = k THEN v ELSE o[x]]

\* the object o without key k
Without(o, k) == [x \in DOMAIN o \ {k} |-> o[x]]

\* JSON.stringify of an object whose properties are given as key -> value or
\* undefined: a property whose value is undefined is left out of the text.
\* The result is the object the text denotes.
JSONstringify(props) ==
    [k \in {x \in DOMAIN props : props[x] # <<>>} |-> props[k][1]]

\* Array.prototype.map
Map(f(_), xs) == [i \in 1..Len(xs) |-> f(xs[i])]

----------------------------------------------------------------------------
\* Tool schemas (zod).  A z.object() keeps the declared keys and strips the
\* others; .optional() admits an absent key; .default(v) fills an absent key.

Strip(o, keys) == [k \in DOMAIN o \cap keys |-> o[k]]

Default(o, k, v) == IF k \in DOMAIN o THEN o ELSE With(o, k, v)

\* z.number().int().positive().optional()
PositiveIntOptional(o, k) ==
    k \in DOMAIN o => (IsInteger(o[k]) /\ IsPositive(o[k]))

\* (variant) a required string with no minimum length
StringAnyLength(o, k, n) == k \in DOMAIN o

\* z.string().min(n), required
StringMin(o, k, n) == k \in DOMAIN o /\ Len(o[k]) >= n

PluralKeys == {"one", "few", "many", "other"}

\* the plural object of a translation item
PluralData(o) ==
    IF "plural" \in DOMAIN o THEN [o EXCEPT !.plural = Strip(o.plural, PluralKeys)] ELSE o

TranslationItemKeys == {"term", "context", "content", "fuzzy", "plural"}

TranslationItemOk(i) == StringMin(i, "term", 1)

TranslationItemData(i) ==
    PluralData(Default(Strip(i, TranslationItemKeys), "content", ""))

TranslationsInput(o) ==
    LET ok == /\ PositiveIntOptional(o, "project_id")
              /\ StringMin(o, "language", 2)
              /\ "items" \in DOMAIN o
              /\ Len(o.items) >= 1
              /\ \A n \in 1..Len(o.items) : TranslationItemOk(o.items[n])
    IN  [success |-> ok,
         data |-> IF ok
                  THEN [Strip(o, {"project_id", "language", "items"})
                            EXCEPT !.items = Map(TranslationItemData, o.items)]
                  ELSE <<>>]

ListLanguagesInput(o) ==
    LET ok == PositiveIntOptional(o, "project_id")
    IN  [success |-> ok, data |-> IF ok THEN Strip(o, {"project_id"}) ELSE <<>>]

\* the empty shape {} of list_available_languages
EmptyInput(o) == [success |-> TRUE, data |-> Strip(o, {})]

AddLanguageInput(o) ==
    LET ok == PositiveIntOptional(o, "project_id") /\ StringMin(o, "language", 2)
    IN  [success |-> ok,
         data |-> IF ok THEN Strip(o, {"project_id", "language"}) ELSE <<>>]

CompoundTranslationKeys == {"content", "fuzzy", "plural"}

CompoundItemKeys == {"term", "context", "reference", "tags", "translation"}

CompoundItemOk(i) == StringMin(i, "term", 1) /\ "translation" \in DOMAIN i

CompoundItemData(i) ==
    LET s == Strip(i, CompoundItemKeys)
    IN  [s EXCEPT !.translation =
            PluralData(Default(Strip(s.translation, CompoundTranslationKeys), "content", ""))]

AddTermsWithTranslationsInput(o) ==
    LET ok == /\ PositiveIntOptional(o, "project_id")
              /\ StringMin(o, "language", 2)
              /\ "items" \in DOMAIN o
              /\ Len(o.items) >= 1
              /\ \A n \in 1..Len(o.items) : CompoundItemOk(o.items[n])
    IN  [success |-> ok,
         data |-> IF ok
                  THEN [Strip(o, {"project_id", "language", "items"})
                            EXCEPT !.items = Map(CompoundItemData, o.items)]
                  ELSE <<>>]

TermKeys == {"term", "context", "reference", "plural", "comment", "tags"}

TermOk(i) == StringMin(i, "term", 1)

TermData(i) == Strip(i, TermKeys)

TermsInput(o) ==
    LET ok == /\ PositiveIntOptional(o, "project_id")
              /\ "terms" \in DOMAIN o
              /\ Len(o.terms) >= 1
              /\ \A n \in 1..Len(o.terms) : TermOk(o.terms[n])
    IN  [success |-> ok,
         data |-> IF ok
                  THEN [Strip(o, {"project_id", "terms"})
                            EXCEPT !.terms = Map(TermData, o.terms)]
                  ELSE <<>>]

----------------------------------------------------------------------------
\* What a call returns or throws

Throw(origin, message) ==
    [threw |-> TRUE, origin |-> origin, message |-> message, value |-> <<>>]

Return(v) == [threw |-> FALSE, origin |-> "", message |-> "", value |-> v]

\* the host rejects arguments that fail the tool's schema before the handler runs
SchemaError == Throw("schema", "Invalid arguments")

MissingProjectId ==
    "project_id is required (either pass it to the tool or set POEDITOR_PROJECT_ID)"

\* (variant) resolution that prefers the configured default
requireProjectIdDefaultFirst(argProjectId) ==
    Once(IF PROJECT_ID # <<>> /\ PROJECT_ID[1] # ""
         THEN <<Number(PROJECT_ID[1])>>
         ELSE argProjectId,
         LAMBDA v : IF v = <<>> \/ ~TruthyNumber(v[1])
                    THEN Throw("requireProjectId", MissingProjectId)
                    ELSE Return(v))

requireProjectId(argProjectId) ==
    Once(IF argProjectId # <<>> THEN argProjectId
         ELSE IF PROJECT_ID # <<>> /\ PROJECT_ID[1] # ""
              THEN <<Number(PROJECT_ID[1])>>
              ELSE <<>>,
         LAMBDA v : IF v = <<>> \/ ~TruthyNumber(v[1])
                    THEN Throw("requireProjectId", MissingProjectId)
                    ELSE Return(v))

----------------------------------------------------------------------------
\* Response bodies the remote service (or whatever answers in its place) sends

TermsAdded ==
    "{\"response\":{\"status\":\"success\",\"code\":\"200\",\"message\":\"OK\"},"
        \o "\"result\":{\"terms\":{\"parsed\":1,\"added\":1}}}"
TranslationsAdded ==
    "{\"response\":{\"status\":\"success\",\"code\":\"200\",\"message\":\"OK\"},"
        \o "\"result\":{\"translations\":{\"parsed\":1,\"added\":1,\"updated\":0}}}"
BareSuccess == "{\"response\":{\"status\":\"success\"}}"
LanguageList ==
    "{\"response\":{\"status\":\"success\"},\"result\":{\"languages\":[{\"code\":\"en\"}]}}"
TermList ==
    "{\"response\":{\"status\":\"success\"},\"result\":{\"terms\":["
        \o "{\"term\":\"Hello\",\"context\":\"\",\"translation\":{\"content\":\"Hallo\",\"fuzzy\":0}},"
        \o "{\"term\":\"Bye\",\"context\":\"shell\"},"
        \o "{\"term\":\"Ok\",\"context\":\"\",\"translation\":{\"content\":\"\"}},"
        \o "{\"term\":\"Yes\",\"translation\":{\"content\":\"Help\"}}]}}"
TermListNotArray == "{\"response\":{\"status\":\"success\"},\"result\":{\"terms\":\"none\"}}"
TermListNumeric ==
    "{\"response\":{\"status\":\"success\"},\"result\":{\"terms\":[{\"term\":404}]}}"
ApiFailure ==
    "{\"response\":{\"status\":\"fail\",\"code\":\"4011\",\"message\":\"Invalid API Token\"}}"
BareFailure == "{\"response\":{\"status\":\"fail\"}}"
WrongCase == "{\"response\":{\"status\":\"Success\"},\"result\":{}}"
NoStatus == "{\"response\":{\"code\":\"200\"},\"result\":{}}"
NoEnvelope == "{\"status\":\"success\",\"result\":{}}"
NullBody == "null"
HtmlBody == "<html>502</html>"
CutShort == "{\"response\":{\"status\":\"success\"}"

\* bodies whose envelope reports success, and the others
SuccessBodies ==
    {TermsAdded, TranslationsAdded, BareSuccess, LanguageList, TermList,
     TermListNotArray, TermListNumeric}
NonJsonBodies == {HtmlBody, CutShort}
FailureBodies == {ApiFailure, BareFailure, WrongCase, NoStatus, NoEnvelope, NullBody}

----------------------------------------------------------------------------
\* The remote call adapter

\* the request poeditor() sends: the form with the token merged in
Request(endpoint, form) ==
    [endpoint |-> endpoint,
     body |-> [k \in {"api_token"} \cup DOMAIN form |->
                  IF k \in DOMAIN form THEN form[k] ELSE API_TOKEN[1]]]

\* (variant) a success test that takes any non-empty status for success
IsSuccessTruthy(json) == Truthy(Member(Member(json, "response"), "status"))

\* the status test of poeditor()
IsSuccess(json) ==
    LET status == Member(Member(json, "response"), "status")
    IN  status # <<>> /\ status[1].t = "string" /\ status[1].s = "success"

\* the error poeditor() raises for an envelope that does not report success
ApiError(json) ==
    LET code    == Member(Member(json, "response"), "code")
        msg     == Member(Member(json, "response"), "message")
        message == IF Truthy(msg) THEN msg ELSE <<JStr("Unknown POEditor error")>>
    IN  Throw("poeditor",
              "POEditor API error " \o Interpolate(Coalesce(code, <<JStr("")>>))
                  \o ": " \o Interpolate(message))

\* (variant) a malformed-response error that leaves the body out
InvalidJsonTerse(text) == Throw("poeditor", "POEditor: invalid JSON response")

\* the error poeditor() raises for a body that is not JSON
InvalidJson(text) == Throw("poeditor", "POEditor: invalid JSON response: " \o text)

\* poeditor() from the point where the request settles: resp is the
\* transport's failure or the response body text
poeditor(resp) ==
    IF resp.failed THEN Throw("request", resp.text)
    ELSE Once(JSONparse(resp.text), LAMBDA parsed :
            IF ~parsed.ok THEN InvalidJson(resp.text)
            ELSE IF ~IsSuccess(<<parsed.v>>) THEN ApiError(<<parsed.v>>)
            ELSE Return(<<parsed.v>>))

----------------------------------------------------------------------------
\* Payloads

\* (variant) a body that keeps content and fuzzy next to the plural map
TranslationBodyMerged(i) ==
    JSONstringify([content |-> <<i.content>>,
                   fuzzy |-> <<IF "fuzzy" \in DOMAIN i /\ i.fuzzy THEN 1 ELSE 0>>,
                   plural |-> Prop(i, "plural")])

\* i.plural ? { plural } : { content, fuzzy: i.fuzzy ? 1 : 0 }
TranslationBody(i) ==
    IF "plural" \in DOMAIN i
    THEN [plural |-> i.plural]
    ELSE [content |-> i.content,
          fuzzy |-> IF "fuzzy" \in DOMAIN i /\ i.fuzzy THEN 1 ELSE 0]

\* (variant) a record that passes the item's context through as it is
TranslationRecordBare(i) ==
    JSONstringify([term |-> <<i.term>>,
                   context |-> Prop(i, "context"),
                   translation |-> <<TranslationBody(i)>>])

\* one record of add_translations / update_translations
TranslationRecord(i) ==
    JSONstringify([term |-> <<i.term>>,
                   context |-> IF "context" \in DOMAIN i THEN <<i.context>> ELSE <<"">>,
                   translation |-> <<TranslationBody(i)>>])

\* step 1 of add_terms_with_translations: one terms/add record
CompoundTermRecord(item) ==
    JSONstringify([term |-> <<item.term>>,
                   context |-> Prop(item, "context"),
                   reference |-> Prop(item, "reference"),
                   tags |-> Prop(item, "tags")])

\* step 2 of add_terms_with_translations: one translations/add record
CompoundTranslationRecord(item) ==
    JSONstringify([term |-> <<item.term>>,
                   context |-> IF "context" \in DOMAIN item THEN <<item.context>> ELSE <<"">>,
                   translation |-> <<TranslationBody(item.translation)>>])

\* JSON.stringify(args.terms) of add_terms
TermRecord(i) == JSONstringify([k \in DOMAIN i |-> <<i[k]>>])

\* res.result ?? {}
ResultOrEmpty(res) == Coalesce(Member(res, "result"), <<EmptyObject>>)

\* res.result?.terms ?? res.result
TermsOrResult(res) == Coalesce(Member(Member(res, "result"), "terms"), Member(res, "result"))

\* the combined result of add_terms_with_translations
CombinedResult(tRes, trRes) ==
    JSONstringify([terms_added |-> TermsOrResult(tRes),
                   translations_added |-> ResultOrEmpty(trRes)])

----------------------------------------------------------------------------
\* list_terms

FieldNames == {"term", "context", "translation"}

ListTermsInput(o) ==
    LET ok == /\ PositiveIntOptional(o, "project_id")
              /\ PositiveIntOptional(o, "limit")
              /\ ("fields" \in DOMAIN o =>
                     \A n \in 1..Len(o.fields) : o.fields[n] \in FieldNames)
    IN  [success |-> ok,
         data |-> IF ok
                  THEN Strip(o, {"project_id", "language", "limit", "search",
                                 "count_only", "fields"})
                  ELSE <<>>]

\* the form of the terms/list request: language only when it is non-empty
ListTermsForm(a, idText) ==
    IF "language" \in DOMAIN a /\ a.language # ""
    THEN [id |-> idText, language |-> a.language]
    ELSE [id |-> idText]

UpperChars == "ABCDEFGHIJKLMNOPQRSTUVWXYZ"
LowerChars == "abcdefghijklmnopqrstuvwxyz"

LowerOf(c) ==
    LET at == {n \in 1..Len(UpperChars) : Ch(UpperChars, n) = c}
    IN  IF at = {} THEN c ELSE Ch(LowerChars, CHOOSE n \in at : TRUE)

\* String.prototype.toLowerCase
RECURSIVE ToLowerCase(_)
ToLowerCase(s) ==
    IF s = "" THEN "" ELSE LowerOf(Ch(s, 1)) \o ToLowerCase(Slice(s, 2, Len(s)))

\* v || undefined
OrUndefined(o) == IF Truthy(o) THEN o ELSE <<>>

\* the reduced term object built from one remote term
TermView(t) ==
    [term |-> Member(<<t>>, "term"),
     context |-> OrUndefined(Member(<<t>>, "context")),
     translation |-> OrUndefined(Member(Member(<<t>>, "translation"), "content"))]

\* res.result?.terms?.map(...) ?? []
RemoteTerms(res) ==
    LET rt == Member(Member(res, "result"), "terms")
    IN  IF Nullish(rt) THEN Return(<<>>)
        ELSE IF rt[1].t # "array"
        THEN Throw("handler", "TypeError: res.result?.terms?.map is not a function")
        ELSE IF \E n \in 1..Len(rt[1].vs) : rt[1].vs[n].t = "null"
        THEN Throw("handler", "TypeError: Cannot read properties of null")
        ELSE Return(Map(TermView, rt[1].vs))

\* v?.toLowerCase().includes(q): "yes", "no", or "throw" when v has no toLowerCase
FieldMatch(o, q) ==
    IF Nullish(o) THEN "no"
    ELSE IF o[1].t # "string" THEN "throw"
    ELSE IF Includes(ToLowerCase(o[1].s), q) THEN "yes" ELSE "no"

\* the filter callback: term || context || translation, left to right
TermMatch(t, q) ==
    IF FieldMatch(t.term, q) # "no" THEN FieldMatch(t.term, q)
    ELSE IF FieldMatch(t.context, q) # "no" THEN FieldMatch(t.context, q)
    ELSE FieldMatch(t.translation, q)

\* (variant) a search that sees only the fields the caller selected
SearchFilterAfterSelection(a, terms) ==
    IF "search" \in DOMAIN a /\ a.search # ""
    THEN Once(ToLowerCase(a.search), LAMBDA searchLower :
            Return(SelectSeq(
                [n \in 1..Len(terms) |->
                    [k \in FieldNames |->
                        IF "fields" \in DOMAIN a /\ Len(a.fields) > 0
                               /\ k \notin {a.fields[m] : m \in 1..Len(a.fields)}
                        THEN <<>> ELSE terms[n][k]]],
                LAMBDA x : TermMatch(x, searchLower) = "yes")))
    ELSE Return(terms)

\* the search filter
SearchFilter(a, terms) ==
    IF "search" \in DOMAIN a /\ a.search # ""
    THEN Once(ToLowerCase(a.search), LAMBDA searchLower :
            IF \E n \in 1..Len(terms) : TermMatch(terms[n], searchLower) = "throw"
            THEN Throw("handler", "TypeError: toLowerCase is not a function")
            ELSE Return(SelectSeq(terms, LAMBDA x : TermMatch(x, searchLower) = "yes")))
    ELSE Return(terms)

\* the fields selection
FieldsSelection(a, terms) ==
    IF "fields" \in DOMAIN a /\ Len(a.fields) > 0
    THEN LET fieldSet == {a.fields[n] : n \in 1..Len(a.fields)}
         IN  [n \in 1..Len(terms) |-> [k \in fieldSet |-> terms[n][k]]]
    ELSE terms

\* the limit
ApplyLimit(a, terms) ==
    IF "limit" \in DOMAIN a /\ TruthyNumber(a.limit) /\ a.limit.tenths < 10 * Len(terms)
    THEN SubSeq(terms, 1, a.limit.tenths \div 10)
    ELSE terms

\* (variant) a result that cuts the list to the limit before it counts
ListTermsResultLimitFirst(a, res) ==
    Once(RemoteTerms(res), LAMBDA mapped :
        IF mapped.threw THEN mapped
        ELSE Once(SearchFilter(a, mapped.value), LAMBDA found :
            IF found.threw THEN found
            ELSE Once(ApplyLimit(a, FieldsSelection(a, found.value)), LAMBDA terms :
                IF "count_only" \in DOMAIN a /\ a.count_only
                THEN Return(<<[total |-> Len(terms)]>>)
                ELSE Return(<<[terms |-> Map(JSONstringify, terms),
                               total |-> Len(terms)]>>))))

\* the result object of list_terms once the remote call has succeeded
ListTermsResult(a, res) ==
    Once(RemoteTerms(res), LAMBDA mapped :
        IF mapped.threw THEN mapped
        ELSE Once(SearchFilter(a, mapped.value), LAMBDA found :
            IF found.threw THEN found
            ELSE Once(FieldsSelection(a, found.value), LAMBDA terms :
                IF "count_only" \in DOMAIN a /\ a.count_only
                THEN Return(<<[total |-> Len(terms)]>>)
                ELSE Return(<<[terms |-> Map(JSONstringify, ApplyLimit(a, terms)),
                               total |-> Len(terms)]>>))))

----------------------------------------------------------------------------
\* Inputs: the environment, the callers' argument objects, the remote's answers

MaxItems == 2

ApiTokens == {<<>>, <<"t0k">>}

ProjectIdDefaults ==
    {<<>>, <<"">>, <<"7">>, <<"12">>, <<"0">>, <<"-3">>, <<"2.5">>, <<"x7">>}

\* sequences over S of length lo..hi
Lists(S, lo, hi) == UNION {[1..n -> S] : n \in lo..hi}

\* a with and without an explicit project_id
Both(a) == {a, With(a, "project_id", Int10(5))}

\* project_id values the schema refuses
BadProjectIds == {Int10(0), Int10(-1), Num(25)}

TranslationItems ==
    { [term |-> "a"],
      [term |-> "a", context |-> "", content |-> "x", fuzzy |-> TRUE],
      [term |-> "b", context |-> "c", content |-> "y", fuzzy |-> FALSE],
      [term |-> "a", context |-> "c", content |-> "x", fuzzy |-> TRUE,
       plural |-> [one |-> "o", other |-> "os"]],
      [term |-> "b", plural |-> [one |-> "o"], note |-> "n"] }

BadTranslationItems == { [term |-> ""], [context |-> "c", content |-> "x"] }

TranslationsBase == [language |-> "en", items |-> <<[term |-> "a"]>>]

TranslationsArgs ==
    UNION {Both([language |-> "en", items |-> l]) : l \in Lists(TranslationItems, 1, MaxItems)}
    \cup {With(TranslationsBase, "project_id", p) : p \in BadProjectIds}
    \cup {With(TranslationsBase, "language", l) : l \in {"", "e"}}
    \cup {Without(TranslationsBase, "language"), Without(TranslationsBase, "items")}
    \cup {With(TranslationsBase, "items", <<>>), With(TranslationsBase, "verbose", TRUE)}
    \cup {With(TranslationsBase, "items", Append(l, b)) :
            l \in Lists({[term |-> "a"]}, 0, MaxItems - 1), b \in BadTranslationItems}

CompoundItems ==
    { [term |-> "a", translation |-> [content |-> "x"]],
      [term |-> "a", context |-> "", reference |-> "r",
       translation |-> [content |-> "x", fuzzy |-> TRUE]],
      [term |-> "b", context |-> "c", tags |-> <<"t">>,
       translation |-> [content |-> "x", fuzzy |-> TRUE, plural |-> [one |-> "o"]]],
      [term |-> "b", translation |-> [fuzzy |-> FALSE, note |-> "n"]] }

BadCompoundItems ==
    { [term |-> "", translation |-> [content |-> "x"]], [term |-> "a"] }

CompoundBase ==
    [language |-> "en", items |-> <<[term |-> "a", translation |-> [content |-> "x"]]>>]

CompoundArgs ==
    UNION {Both([language |-> "en", items |-> l]) : l \in Lists(CompoundItems, 1, MaxItems)}
    \cup {With(CompoundBase, "project_id", p) : p \in BadProjectIds}
    \cup {With(CompoundBase, "language", l) : l \in {"", "e"}}
    \cup {Without(CompoundBase, "language"), Without(CompoundBase, "items")}
    \cup {With(CompoundBase, "items", <<>>), With(CompoundBase, "verbose", TRUE)}
    \cup {With(CompoundBase, "items", Append(l, b)) :
            l \in Lists({CompoundBase.items[1]}, 0, MaxItems - 1), b \in BadCompoundItems}

TermItems ==
    { [term |-> "a"],
      [term |-> "a", context |-> "c", comment |-> "k", tags |-> <<>>],
      [term |-> "b", context |-> "", plural |-> "bs", reference |-> "r", note |-> "n"] }

TermsBase == [terms |-> <<[term |-> "a"]>>]

TermsArgs ==
    UNION {Both([terms |-> l]) : l \in Lists(TermItems, 1, MaxItems)}
    \cup {With(TermsBase, "project_id", p) : p \in BadProjectIds}
    \cup {Without(TermsBase, "terms"), With(TermsBase, "terms", <<>>)}
    \cup {With(TermsBase, "verbose", TRUE)}
    \cup {With(TermsBase, "terms", Append(l, b)) :
            l \in Lists({[term |-> "a"]}, 0, MaxItems - 1),
            b \in {[term |-> ""], [context |-> "c"]}}

ProjectArgs ==
    Both(<<>>) \cup {[project_id |-> p] : p \in BadProjectIds} \cup {[verbose |-> TRUE]}

NoArgs == {<<>>, [verbose |-> TRUE]}

LanguageArgs ==
    UNION {Both([language |-> l]) : l \in {"en", "e", ""}}
    \cup {[project_id |-> Int10(5)], [language |-> "en", verbose |-> TRUE]}
    \cup {[language |-> "en", project_id |-> p] : p \in BadProjectIds}

ListTermsOptions ==
    { <<>>,
      [language |-> "e"],
      [language |-> ""],
      [limit |-> Int10(1)],
      [limit |-> Int10(2), search |-> "HeL"],
      [search |-> "bye", fields |-> <<"term">>],
      [search |-> ""],
      [fields |-> <<>>],
      [fields |-> <<"context", "translation">>, limit |-> Int10(1)],
      [count_only |-> TRUE],
      [count_only |-> TRUE, search |-> "HeL", limit |-> Int10(1), fields |-> <<"term">>],
      [count_only |-> TRUE, limit |-> Int10(1)],
      [count_only |-> TRUE, search |-> "bye"],
      [search |-> "HeL", fields |-> <<"term">>],
      [search |-> "HeL", fields |-> <<"term">>, limit |-> Int10(2)],
      [search |-> "bye", limit |-> Int10(2)],
      [count_only |-> FALSE, language |-> "en", verbose |-> TRUE] }

ListTermsArgs ==
    UNION {Both(a) : a \in ListTermsOptions}
    \cup {[project_id |-> p] : p \in BadProjectIds}
    \cup {[limit |-> p] : p \in BadProjectIds}
    \cup {[fields |-> <<"term", "tags">>]}

Answer(text) == [failed |-> FALSE, text |-> text]
TransportFailure == [failed |-> TRUE, text |-> "connect ECONNREFUSED"]

Failures == {TransportFailure} \cup {Answer(b) : b \in NonJsonBodies \cup FailureBodies}

TermsAddAnswers == Failures \cup {Answer(TermsAdded), Answer(BareSuccess)}
TranslationsAnswers == Failures \cup {Answer(TranslationsAdded), Answer(BareSuccess)}
LanguagesAnswers == Failures \cup {Answer(LanguageList), Answer(BareSuccess)}
TermsListAnswers ==
    Failures \cup {Answer(TermList), Answer(TermListNotArray), Answer(TermListNumeric),
                   Answer(BareSuccess)}

----------------------------------------------------------------------------
\* The state machine

env == <<API_TOKEN, PROJECT_ID, alive>>

\* startup: without a token the process exits before serving anything
Init ==
    /\ API_TOKEN \in ApiTokens
    /\ PROJECT_ID \in ProjectIdDefaults
    /\ alive = (API_TOKEN # <<>> /\ API_TOKEN[1] # "")
    /\ pc = "idle"
    /\ tool = ""
    /\ raw = <<>>
    /\ args = <<>>
    /\ id = <<>>
    /\ termRes = <<>>
    /\ calls = <<>>
    /\ received = <<>>
    /\ outcome = <<>>

\* the invocation of tool t with arguments a ends with r before any request
Reject(t, a, r) ==
    /\ pc' = "done"
    /\ tool' = t
    /\ raw' = a
    /\ outcome' = <<r>>
    /\ UNCHANGED <<env, args, id, termRes, calls, received>>

\* the handler of t sends its first request and awaits the answer
Send(t, a, data, idValue, request) ==
    /\ pc' = "await1"
    /\ tool' = t
    /\ raw' = a
    /\ args' = data
    /\ id' = idValue
    /\ calls' = <<request>>
    /\ UNCHANGED <<env, termRes, received, outcome>>

\* the handler ends with r after the answer resp
Settle(resp, r) ==
    /\ pc' = "done"
    /\ received' = Append(received, resp)
    /\ outcome' = <<r>>
    /\ UNCHANGED <<env, tool, raw, args, id, termRes, calls>>

AddTranslations(a) ==
    /\ alive /\ pc = "idle"
    /\ \E v \in {TranslationsInput(a)} :
           IF ~v.success THEN Reject("add_translations", a, SchemaError)
           ELSE \E r \in {requireProjectId(Prop(v.data, "project_id"))} :
                IF r.threw THEN Reject("add_translations", a, r)
                ELSE Send("add_translations", a, v.data, r.value,
                     Request("translations/add",
                             [id |-> String(r.value[1]),
                              language |-> v.data.language,
                              data |-> Map(TranslationRecord, v.data.items)]))

AddTranslationsDone(resp) ==
    /\ pc = "await1" /\ tool = "add_translations"
    /\ \E res \in {poeditor(resp)} :
           Settle(resp, IF res.threw THEN res ELSE Return(ResultOrEmpty(res.value)))

UpdateTranslations(a) ==
    /\ alive /\ pc = "idle"
    /\ \E v \in {TranslationsInput(a)} :
           IF ~v.success THEN Reject("update_translations", a, SchemaError)
           ELSE \E r \in {requireProjectId(Prop(v.data, "project_id"))} :
                IF r.threw THEN Reject("update_translations", a, r)
                ELSE Send("update_translations", a, v.data, r.value,
                     Request("translations/update",
                             [id |-> String(r.value[1]),
                              language |-> v.data.language,
                              data |-> Map(TranslationRecord, v.data.items)]))

UpdateTranslationsDone(resp) ==
    /\ pc = "await1" /\ tool = "update_translations"
    /\ \E res \in {poeditor(resp)} :
           Settle(resp, IF res.threw THEN res ELSE Return(ResultOrEmpty(res.value)))

ListTerms(a) ==
    /\ alive /\ pc = "idle"
    /\ \E v \in {ListTermsInput(a)} :
           IF ~v.success THEN Reject("list_terms", a, SchemaError)
           ELSE \E r \in {requireProjectId(Prop(v.data, "project_id"))} :
                IF r.threw THEN Reject("list_terms", a, r)
                ELSE Send("list_terms", a, v.data, r.value,
                     Request("terms/list", ListTermsForm(v.data, String(r.value[1]))))

ListTermsDone(resp) ==
    /\ pc = "await1" /\ tool = "list_terms"
    /\ \E res \in {poeditor(resp)} :
           Settle(resp, IF res.threw THEN res ELSE ListTermsResult(args, res.value))

ListLanguages(a) ==
    /\ alive /\ pc = "idle"
    /\ \E v \in {ListLanguagesInput(a)} :
           IF ~v.success THEN Reject("list_languages", a, SchemaError)
           ELSE \E r \in {requireProjectId(Prop(v.data, "project_id"))} :
                IF r.threw THEN Reject("list_languages", a, r)
                ELSE Send("list_languages", a, v.data, r.value,
                     Request("languages/list", [id |-> String(r.value[1])]))

ListLanguagesDone(resp) ==
    /\ pc = "await1" /\ tool = "list_languages"
    /\ \E res \in {poeditor(resp)} :
           Settle(resp, IF res.threw THEN res ELSE Return(ResultOrEmpty(res.value)))

ListAvailableLanguages(a) ==
    /\ alive /\ pc = "idle"
    /\ \E v \in {EmptyInput(a)} :
           Send("list_available_languages", a, v.data, <<>>,
                Request("languages/available", <<>>))

ListAvailableLanguagesDone(resp) ==
    /\ pc = "await1" /\ tool = "list_available_languages"
    /\ \E res \in {poeditor(resp)} :
           Settle(resp, IF res.threw THEN res ELSE Return(ResultOrEmpty(res.value)))

AddLanguage(a) ==
    /\ alive /\ pc = "idle"
    /\ \E v \in {AddLanguageInput(a)} :
           IF ~v.success THEN Reject("add_language", a, SchemaError)
           ELSE \E r \in {requireProjectId(Prop(v.data, "project_id"))} :
                IF r.threw THEN Reject("add_language", a, r)
                ELSE Send("add_language", a, v.data, r.value,
                     Request("languages/add",
                             [id |-> String(r.value[1]), language |-> v.data.language]))

AddLanguageDone(resp) ==
    /\ pc = "await1" /\ tool = "add_language"
    /\ \E res \in {poeditor(resp)} :
           Settle(resp, IF res.threw THEN res ELSE Return(ResultOrEmpty(res.value)))

\* step 1: the terms/add request
AddTermsWithTranslations(a) ==
    /\ alive /\ pc = "idle"
    /\ \E v \in {AddTermsWithTranslationsInput(a)} :
           IF ~v.success THEN Reject("add_terms_with_translations", a, SchemaError)
           ELSE \E r \in {requireProjectId(Prop(v.data, "project_id"))} :
                IF r.threw THEN Reject("add_terms_with_translations", a, r)
                ELSE Send("add_terms_with_translations", a, v.data, r.value,
                     Request("terms/add",
                             [id |-> String(r.value[1]),
                              data |-> Map(CompoundTermRecord, v.data.items)]))

\* (variant) step 2 that goes on to translations/add whatever terms/add answered
Step2IgnoringFailure(resp) ==
    /\ pc = "await1" /\ tool = "add_terms_with_translations"
    /\ \E res \in {poeditor(resp)} :
           /\ pc' = "await2"
           /\ received' = Append(received, resp)
           /\ termRes' = IF res.threw THEN <<EmptyObject>> ELSE res.value
           /\ calls' = Append(calls,
                   Request("translations/add",
                           [id |-> String(id[1]),
                            language |-> args.language,
                            data |-> Map(CompoundTranslationRecord, args.items)]))
           /\ UNCHANGED <<env, tool, raw, args, id, outcome>>

\* step 2: terms/add has settled; the translations/add request
AddTermsWithTranslationsStep2(resp) ==
    /\ pc = "await1" /\ tool = "add_terms_with_translations"
    /\ \E res \in {poeditor(resp)} :
           IF res.threw THEN Settle(resp, res)
           ELSE /\ pc' = "await2"
                /\ received' = Append(received, resp)
                /\ termRes' = res.value
                /\ calls' = Append(calls,
                        Request("translations/add",
                                [id |-> String(id[1]),
                                 language |-> args.language,
                                 data |-> Map(CompoundTranslationRecord, args.items)]))
                /\ UNCHANGED <<env, tool, raw, args, id, outcome>>

\* (variant) a failed translations/add reported as a partial result
DoneWithPartialResult(resp) ==
    /\ pc = "await2" /\ tool = "add_terms_with_translations"
    /\ \E res \in {poeditor(resp)} :
           Settle(resp, IF res.threw
                        THEN [res EXCEPT !.value =
                                 <<JSONstringify([terms_added |-> TermsOrResult(termRes)])>>]
                        ELSE Return(<<CombinedResult(termRes, res.value)>>))

\* translations/add has settled; the combined result
AddTermsWithTranslationsDone(resp) ==
    /\ pc = "await2" /\ tool = "add_terms_with_translations"
    /\ \E res \in {poeditor(resp)} :
           Settle(resp, IF res.threw THEN res
                        ELSE Return(<<CombinedResult(termRes, res.value)>>))

\* (variant) add_terms sending its request once more after a failure
AddTermsDoneRetrying(resp) ==
    /\ pc = "await1" /\ tool = "add_terms"
    /\ \E res \in {poeditor(resp)} :
           IF res.threw /\ Len(calls) = 1
           THEN /\ received' = Append(received, resp)
                /\ calls' = Append(calls, calls[1])
                /\ UNCHANGED <<env, pc, tool, raw, args, id, termRes, outcome>>
           ELSE Settle(resp, IF res.threw THEN res ELSE Return(TermsOrResult(res.value)))

AddTerms(a) ==
    /\ alive /\ pc = "idle"
    /\ \E v \in {TermsInput(a)} :
           IF ~v.success THEN Reject("add_terms", a, SchemaError)
           ELSE \E r \in {requireProjectId(Prop(v.data, "project_id"))} :
                IF r.threw THEN Reject("add_terms", a, r)
                ELSE Send("add_terms", a, v.data, r.value,
                     Request("terms/add",
                             [id |-> String(r.value[1]),
                              data |-> Map(TermRecord, v.data.terms)]))

AddTermsDone(resp) ==
    /\ pc = "await1" /\ tool = "add_terms"
    /\ \E res \in {poeditor(resp)} :
           Settle(resp, IF res.threw THEN res ELSE Return(TermsOrResult(res.value)))

\* the host hands the result or the error to the caller; the handler's
\* locals are gone and the server takes the next call
Deliver ==
    /\ pc = "done"
    /\ pc' = "idle"
    /\ tool' = ""
    /\ raw' = <<>>
    /\ args' = <<>>
    /\ id' = <<>>
    /\ termRes' = <<>>
    /\ calls' = <<>>
    /\ received' = <<>>
    /\ outcome' = <<>>
    /\ UNCHANGED env

Next ==
    \/ \E a \in TranslationsArgs : AddTranslations(a)
    \/ \E resp \in TranslationsAnswers : AddTranslationsDone(resp)
    \/ \E a \in TranslationsArgs : UpdateTranslations(a)
    \/ \E resp \in TranslationsAnswers : UpdateTranslationsDone(resp)
    \/ \E a \in ListTermsArgs : ListTerms(a)
    \/ \E resp \in TermsListAnswers : ListTermsDone(resp)
    \/ \E a \in ProjectArgs : ListLanguages(a)
    \/ \E resp \in LanguagesAnswers : ListLanguagesDone(resp)
    \/ \E a \in NoArgs : ListAvailableLanguages(a)
    \/ \E resp \in LanguagesAnswers : ListAvailableLanguagesDone(resp)
    \/ \E a \in LanguageArgs : AddLanguage(a)
    \/ \E resp \in LanguagesAnswers : AddLanguageDone(resp)
    \/ \E a \in CompoundArgs : AddTermsWithTranslations(a)
    \/ \E resp \in TermsAddAnswers : AddTermsWithTranslationsStep2(resp)
    \/ \E resp \in TranslationsAnswers : AddTermsWithTranslationsDone(resp)
    \/ \E a \in TermsArgs : AddTerms(a)
    \/ \E resp \in TermsAddAnswers : AddTermsDone(resp)
    \/ Deliver

Spec == Init /\ [][Next]_vars

----------------------------------------------------------------------------
\* Properties

Compound == tool = "add_terms_with_translations"

\* the remote answered with an envelope that reports success
Succeeded(resp) == ~resp.failed /\ resp.text \in SuccessBodies

\* the invocation is over and failed
Failed == pc = "done" /\ outcome[1].threw

\* the invocation got past the schema and the identifier resolution
Accepted == Len(calls) >= 1

\* C1: in add_terms_with_translations, translations/add is issued only as the
\* second request and only after terms/add was answered with success; when
\* terms/add fails (transport error, malformed body, status other than
\* success) the invocation fails and terms/add stays the only request.
C1_TranslationsOnlyAfterTermsAdded ==
    Compound =>
        /\ \A n \in 1..Len(calls) :
              calls[n].endpoint = "translations/add" =>
                  n = 2 /\ Len(received) >= 1 /\ Succeeded(received[1])
        /\ (Len(received) >= 1 /\ ~Succeeded(received[1])) =>
              /\ Failed
              /\ Len(calls) = 1
              /\ calls[1].endpoint = "terms/add"

C1_Witness ==
    /\ Compound /\ pc = "done"
    /\ received = <<Answer(ApiFailure)>>
    /\ Len(calls) = 1

\* C2 (as claimed): when terms/add succeeds and translations/add fails, what
\* the invocation returns has terms_added populated, so that the caller can
\* tell a second-step failure from a first-step failure.
C2_SecondStepFailureShowsTermsAdded ==
    (Compound /\ pc = "done" /\ Len(received) = 2 /\ ~Succeeded(received[2])) =>
        /\ outcome[1].value # <<>>
        /\ "terms_added" \in DOMAIN outcome[1].value[1]

\* C2 (amended): a failure of either step ends the invocation with the
\* adapter's error for the failing request, unchanged, and with no result
\* object: neither terms_added nor translations_added is populated, after a
\* second-step failure just as after a first-step failure.
C2_FailureOfEitherStepHasNoResult ==
    (Compound /\ pc = "done" /\ Len(received) >= 1
        /\ ~Succeeded(received[Len(received)])) =>
        /\ outcome[1].threw
        /\ outcome[1].value = <<>>
        /\ outcome[1] = poeditor(received[Len(received)])

C2_Witness ==
    /\ Compound /\ pc = "done"
    /\ Len(received) = 2
    /\ Succeeded(received[1])
    /\ ~Succeeded(received[2])
    /\ outcome[1].threw

\* C3 (as claimed): for every item, the record of the terms/add request and
\* the record of the translations/add request carry the same context value.
C3_SameContextInBothRequests ==
    (Compound /\ Len(calls) = 2) =>
        \A n \in 1..Len(raw.items) :
            Prop(calls[1].body.data[n], "context") = Prop(calls[2].body.data[n], "context")

\* the schema of the tool refused the arguments
SchemaRejected == outcome # <<>> /\ outcome[1].origin = "schema"

\* C4: once the arguments passed the schema, requireProjectId returns the
\* explicit project_id whatever the configured default is; without an explicit
\* one it returns the default (a positive integer in POEDITOR_PROJECT_ID); with
\* neither (the variable unset or empty) it throws the missing-identifier
\* error and the tool sends no request.
C4_IdentifierResolution ==
    (pc # "idle" /\ tool # "list_available_languages" /\ ~SchemaRejected) =>
        /\ "project_id" \in DOMAIN raw =>
              /\ Accepted
              /\ id = <<raw.project_id>>
              /\ calls[1].body.id = String(raw.project_id)
        /\ "project_id" \notin DOMAIN raw =>
              /\ \A n \in 1..99 :
                    PROJECT_ID = <<ToString(n)>> =>
                        /\ Accepted
                        /\ id = <<Int10(n)>>
                        /\ calls[1].body.id = ToString(n)
              /\ PROJECT_ID \in {<<>>, <<"">>} =>
                    /\ Failed
                    /\ outcome[1].origin = "requireProjectId"
                    /\ Includes(outcome[1].message, "project_id is required")
                    /\ Includes(outcome[1].message, "POEDITOR_PROJECT_ID")
                    /\ calls = <<>>

C4_Witness ==
    /\ pc = "await1"
    /\ "project_id" \in DOMAIN raw
    /\ PROJECT_ID = <<"7">>
    /\ id = <<Int10(5)>>
    /\ calls[1].body.id = "5"

\* the rules of validation, read off the argument object as the caller gave it

ItemList(a) ==
    IF "items" \in DOMAIN a THEN a.items
    ELSE IF "terms" \in DOMAIN a THEN a.terms ELSE <<>>

TranslationTools == {"add_translations", "update_translations"}

EmptyTermText(a) ==
    \E n \in 1..Len(ItemList(a)) :
        "term" \in DOMAIN ItemList(a)[n] /\ ItemList(a)[n].term = ""

ShortLanguage(a) == "language" \in DOMAIN a /\ Len(a.language) < 2

EmptyItemList(a) ==
    \/ "items" \in DOMAIN a /\ Len(a.items) = 0
    \/ "terms" \in DOMAIN a /\ Len(a.terms) = 0

EmptyOptionalList(a) ==
    \/ "fields" \in DOMAIN a /\ Len(a.fields) = 0
    \/ \E n \in 1..Len(ItemList(a)) :
          "tags" \in DOMAIN ItemList(a)[n] /\ Len(ItemList(a)[n].tags) = 0

BadIdentifier(a) ==
    /\ "project_id" \in DOMAIN a
    /\ \/ a.project_id.nan
       \/ a.project_id.tenths <= 0
       \/ a.project_id.tenths % 10 # 0

MissingRequired(t, a) ==
    \/ t \in TranslationTools \cup {"add_terms_with_translations"} /\ "items" \notin DOMAIN a
    \/ t = "add_terms" /\ "terms" \notin DOMAIN a
    \/ t \in TranslationTools \cup {"add_terms_with_translations", "add_language"}
          /\ "language" \notin DOMAIN a
    \/ \E n \in 1..Len(ItemList(a)) :
          \/ "term" \notin DOMAIN ItemList(a)[n]
          \/ t = "add_terms_with_translations" /\ "translation" \notin DOMAIN ItemList(a)[n]

DeclaredFields(t) ==
    CASE t \in TranslationTools \cup {"add_terms_with_translations"} ->
             {"project_id", "language", "items"}
      [] t = "add_terms" -> {"project_id", "terms"}
      [] t = "list_terms" ->
             {"project_id", "language", "limit", "search", "count_only", "fields"}
      [] t = "list_languages" -> {"project_id"}
      [] t = "add_language" -> {"project_id", "language"}
      [] OTHER -> {}

DeclaredItemFields(t) ==
    CASE t \in TranslationTools -> TranslationItemKeys
      [] t = "add_terms_with_translations" -> CompoundItemKeys
      [] OTHER -> TermKeys

UnrecognizedField(t, a) ==
    \/ ~(DOMAIN a \subseteq DeclaredFields(t))
    \/ \E n \in 1..Len(ItemList(a)) :
          \/ ~(DOMAIN ItemList(a)[n] \subseteq DeclaredItemFields(t))
          \/ /\ t = "add_terms_with_translations"
             /\ "translation" \in DOMAIN ItemList(a)[n]
             /\ ~(DOMAIN ItemList(a)[n].translation \subseteq CompoundTranslationKeys)

\* the invocation failed on validation, nothing was sent, the server serves on
RefusedByValidation ==
    /\ Failed
    /\ outcome[1].origin = "schema"
    /\ calls = <<>>
    /\ alive
    /\ ENABLED Deliver

\* C5 (as claimed): every argument object with an empty term text, a language
\* code shorter than 2, an empty list-valued input, a non-positive or
\* non-integer identifier, a missing required field or an unrecognized field
\* fails on validation with no request sent, in every tool.
C5_EveryRuleEnforcedInEveryTool ==
    (pc # "idle"
        /\ \/ EmptyTermText(raw) \/ ShortLanguage(raw)
           \/ EmptyItemList(raw) \/ EmptyOptionalList(raw)
           \/ BadIdentifier(raw) \/ MissingRequired(tool, raw)
           \/ UnrecognizedField(tool, raw))
    => RefusedByValidation

\* C5 (amended): every argument object with an empty term text, a language
\* code shorter than 2 in a tool other than list_terms, an empty items/terms
\* list, a non-positive or non-integer project_id or a missing required field
\* fails on validation with no request sent, and the server serves on.
C5_DeclaredRulesEnforced ==
    (pc # "idle"
        /\ \/ EmptyTermText(raw)
           \/ tool # "list_terms" /\ ShortLanguage(raw)
           \/ EmptyItemList(raw)
           \/ BadIdentifier(raw)
           \/ MissingRequired(tool, raw))
    => RefusedByValidation

C5_Witness ==
    /\ tool = "add_terms_with_translations"
    /\ EmptyTermText(raw)
    /\ Len(raw.items) = MaxItems
    /\ RefusedByValidation

\* the body is JSON text but reports no success
NotSuccess(resp) == ~resp.failed /\ resp.text \in FailureBodies

\* C6: a handler goes on after a response (returns a result, or sends the
\* next request) only when the response's response.status is "success"; after
\* any other envelope (another status, no status, no envelope) the invocation
\* ends with the adapter's error and no result.
C6_ReturnsOnlyOnSuccess ==
    /\ \A n \in 1..Len(received) :
          (n < Len(received) \/ (pc = "done" /\ ~outcome[1].threw)) =>
              Succeeded(received[n])
    /\ \A n \in 1..Len(received) :
          NotSuccess(received[n]) =>
              /\ n = Len(received)
              /\ Failed
              /\ outcome[1].origin = "poeditor"
              /\ outcome[1].value = <<>>

C6_Witness ==
    /\ pc = "done"
    /\ Len(received) = 1
    /\ received[1] = Answer(WrongCase)
    /\ outcome[1].threw
    /\ outcome[1].origin = "poeditor"

\* C7: after a response body that is not JSON the invocation fails with an
\* error whose message contains the body text as received; it returns no
\* result and sends no further request.
C7_MalformedBodyReported ==
    \A n \in 1..Len(received) :
        (~received[n].failed /\ received[n].text \in NonJsonBodies) =>
            /\ n = Len(received)
            /\ Failed
            /\ outcome[1].value = <<>>
            /\ Includes(outcome[1].message, "invalid JSON response")
            /\ Includes(outcome[1].message, received[n].text)
            /\ Len(calls) = n

C7_Witness ==
    /\ pc = "done"
    /\ received = <<Answer(TermsAdded), Answer(CutShort)>>
    /\ Includes(outcome[1].message, CutShort)

\* the translations request of the invocation has been sent
TranslationsSent ==
    \/ tool \in TranslationTools /\ Len(calls) = 1
    \/ Compound /\ Len(calls) = 2

\* the translation part of input item n, and the body sent for it
GivenTranslation(n) == IF Compound THEN raw.items[n].translation ELSE raw.items[n]
SentTranslation(n) == calls[Len(calls)].body.data[n].translation

\* C8: for every item of add_translations, update_translations and step 2 of
\* add_terms_with_translations: with a plural map the body sent is the plural
\* map alone, whatever content or fuzzy came with it; without one it is
\* exactly content and fuzzy, fuzzy being 1 for true and 0 for false or absent.
C8_TranslationBodyShape ==
    TranslationsSent =>
        \A n \in 1..Len(raw.items) :
            IF "plural" \in DOMAIN GivenTranslation(n)
            THEN /\ DOMAIN SentTranslation(n) = {"plural"}
                 /\ SentTranslation(n).plural = GivenTranslation(n).plural
            ELSE /\ DOMAIN SentTranslation(n) = {"content", "fuzzy"}
                 /\ SentTranslation(n).content =
                        (IF "content" \in DOMAIN GivenTranslation(n)
                         THEN GivenTranslation(n).content ELSE "")
                 /\ SentTranslation(n).fuzzy =
                        (IF "fuzzy" \in DOMAIN GivenTranslation(n) /\ GivenTranslation(n).fuzzy
                         THEN 1 ELSE 0)

C8_Witness ==
    /\ Compound /\ Len(calls) = 2
    /\ \E n \in 1..Len(raw.items) :
          /\ {"plural", "content", "fuzzy"} \subseteq DOMAIN raw.items[n].translation
          /\ calls[2].body.data[n].translation = [plural |-> [one |-> "o"]]
    /\ \E n \in 1..Len(raw.items) :
          /\ "fuzzy" \notin DOMAIN raw.items[n].translation
          /\ calls[2].body.data[n].translation = [content |-> "x", fuzzy |-> 0]

\* C9: the request of add_translations and update_translations carries one
\* record per input item, in the input's order, and every record has a
\* context: the item's own when it gave one (the empty string included), the
\* empty string when it gave none.
C9_ContextAlwaysSent ==
    (tool \in TranslationTools /\ Accepted) =>
        /\ calls[1].endpoint =
              (IF tool = "add_translations" THEN "translations/add" ELSE "translations/update")
        /\ Len(calls[1].body.data) = Len(raw.items)
        /\ \A n \in 1..Len(raw.items) :
              /\ calls[1].body.data[n].term = raw.items[n].term
              /\ "context" \in DOMAIN calls[1].body.data[n]
              /\ calls[1].body.data[n].context =
                    (IF "context" \in DOMAIN raw.items[n] THEN raw.items[n].context ELSE "")

C9_Witness ==
    /\ tool = "update_translations"
    /\ Len(calls) = 1
    /\ Len(raw.items) = MaxItems
    /\ "context" \notin DOMAIN raw.items[1]
    /\ calls[1].body.data[1].context = ""
    /\ "context" \in DOMAIN raw.items[MaxItems]
    /\ calls[1].body.data[MaxItems].context = "c"

\* C10: an invocation sends at most one request, add_terms_with_translations
\* at most two and the second only once the first was answered; a request that
\* failed is the invocation's last (no retry, no compensation); and add_terms,
\* once its arguments are valid and the project id is resolved, sends exactly
\* one terms/add request with one record per input term.
C10_RequestsPerInvocation ==
    /\ Len(calls) <= (IF Compound THEN 2 ELSE 1)
    /\ Len(received) <= Len(calls)
    /\ Len(calls) <= Len(received) + 1
    /\ pc = "done" => Len(received) = Len(calls)
    /\ \A n \in 1..Len(received) : ~Succeeded(received[n]) => Len(calls) = n
    /\ Len(calls) = 2 => calls[1].endpoint = "terms/add" /\ calls[2].endpoint = "translations/add"
    /\ (tool = "add_terms" /\ pc # "idle" /\ ~Failed) =>
          /\ Len(calls) = 1
          /\ calls[1].endpoint = "terms/add"
          /\ Len(calls[1].body.data) = Len(raw.terms)
    /\ (tool = "add_terms" /\ Failed /\ outcome[1].origin \notin {"schema", "requireProjectId"}) =>
          /\ Len(calls) = 1
          /\ Len(calls[1].body.data) = Len(raw.terms)

C10_Witness ==
    /\ tool = "add_terms" /\ pc = "done"
    /\ ~outcome[1].threw
    /\ Len(raw.terms) = MaxItems
    /\ Len(calls) = 1
    /\ Len(calls[1].body.data) = MaxItems

\* list_terms has returned a result
ListTermsReturned == tool = "list_terms" /\ pc = "done" /\ ~outcome[1].threw

CountOnly == "count_only" \in DOMAIN raw /\ raw.count_only

\* the search text of the invocation, "" when there is none
SearchText == IF "search" \in DOMAIN raw THEN raw.search ELSE ""

\* the terms of a remote term list that contain the search text in their term,
\* context or translation, whatever the case of the letters, in remote order
Passing(text, search) ==
    CASE text = TermList /\ search = "" -> <<"Hello", "Bye", "Ok", "Yes">>
      [] text = TermList /\ search = "HeL" -> <<"Hello", "Bye", "Yes">>
      [] text = TermList /\ search = "bye" -> <<"Bye">>
      [] OTHER -> <<>>

\* the remote term lists Passing describes
KnownTermLists == {TermList, BareSuccess}

\* C11: with count_only the result of list_terms has a total and nothing
\* else, for every term list and whatever search, fields and limit came with
\* it; the total is the number of terms that pass the search, not cut by limit.
C11_CountOnlyIsTotalAlone ==
    (ListTermsReturned /\ CountOnly) =>
        /\ DOMAIN outcome[1].value[1] = {"total"}
        /\ received[1].text \in KnownTermLists =>
              outcome[1].value[1].total = Len(Passing(received[1].text, SearchText))

C11_Witness ==
    /\ ListTermsReturned /\ CountOnly
    /\ received[1].text = TermList
    /\ {"search", "limit", "fields"} \subseteq DOMAIN raw
    /\ raw.search = "HeL" /\ raw.limit = Int10(1) /\ raw.fields = <<"term">>
    /\ outcome[1].value[1] = [total |-> 3]

\* what list_terms keeps of each term of TermList: the term, the context
\* when it is not empty, the translation's content when it is not empty
RemoteView(name) ==
    CASE name = "Hello" -> [term |-> JStr("Hello"), translation |-> JStr("Hallo")]
      [] name = "Bye" -> [term |-> JStr("Bye"), context |-> JStr("shell")]
      [] name = "Yes" -> [term |-> JStr("Yes"), translation |-> JStr("Help")]
      [] OTHER -> [term |-> JStr(name)]

\* the fields the caller selected, all of them when none or an empty list
SelectedFields ==
    IF "fields" \in DOMAIN raw /\ Len(raw.fields) > 0
    THEN {raw.fields[n] : n \in 1..Len(raw.fields)}
    ELSE {"term", "context", "translation"}

Projected(view) == [k \in DOMAIN view \cap SelectedFields |-> view[k]]

\* how many of total terms the limit lets through
Limited(total) ==
    IF "limit" \in DOMAIN raw THEN Min({raw.limit.tenths \div 10, total}) ELSE total

\* out lists the terms pass: all counted, the first ones up to the limit given
ListedAs(out, pass) ==
    /\ DOMAIN out = {"terms", "total"}
    /\ out.total = Len(pass)
    /\ Len(out.terms) = Limited(Len(pass))
    /\ \A n \in 1..Len(out.terms) : out.terms[n] = Projected(RemoteView(pass[n]))

\* C12: without count_only the result of list_terms is built by search, then
\* fields, then limit: a term passes the search on its term, context or
\* translation whether or not the selection keeps that field; total counts the
\* terms that passed; terms holds the first min(limit, total) of them in remote
\* order, all of them without a limit, each cut down to the selected fields.
C12_SearchThenFieldsThenLimit ==
    (ListTermsReturned /\ ~CountOnly /\ received[1].text \in KnownTermLists) =>
        ListedAs(outcome[1].value[1], Passing(received[1].text, SearchText))

C12_Witness ==
    /\ ListTermsReturned /\ ~CountOnly
    /\ received[1].text = TermList
    /\ {"search", "limit", "fields"} \subseteq DOMAIN raw
    /\ raw.search = "HeL" /\ raw.limit = Int10(2) /\ raw.fields = <<"term">>
    /\ outcome[1].value[1] =
          [terms |-> <<[term |-> JStr("Hello")], [term |-> JStr("Bye")]>>, total |-> 3]

\* C13 (as claimed): whenever the identifier is resolved, the id field of
\* every request is the text of a positive integer, whether the identifier
\* came with the call or from the configured default, whatever that default
\* is (not a number, zero, negative, a fraction).
C13_IdSentIsPositiveInteger ==
    \A n \in 1..Len(calls) :
        "id" \in DOMAIN calls[n].body =>
            \E k \in 1..99 : calls[n].body.id = ToString(k)

====
